---- MODULE Spec2Model ----
(***************************************************************************)
(* Batch ingestion and persistence pipeline of the PDF delivery-manifest   *)
(* extractor: the Express handlers of server.js (POST /extract/batch,      *)
(* processBatchInBackground, GET /batch/status/:jobId, DELETE              *)
(* /batch/:jobId) and the DatabaseService of database-service.js           *)
(* (storeManifest, storeDelivery, getManifestById, createBatchJob,         *)
(* updateBatchJob, linkBatchManifest, getBatchJob).                        *)
(*                                                                         *)
(* Node runs one handler segment at a time: a segment starts when an       *)
(* awaited promise settles and runs to the next await.  Every action below *)
(* is one such segment; its parameter ok says whether the awaited promise  *)
(* resolved (TRUE) or rejected (FALSE).                                    *)
(***************************************************************************)
EXTENDS Integers, Sequences, FiniteSets, TLC

\* ------------------------------------------------------------------ bounds
MaxFiles == 2       \* files of one upload
MaxDeliveries == 2  \* deliveries of one extracted manifest
MaxFaults == 2      \* rejected pool.connect / client.query calls in one run

JobIds == {1, 2}    \* the job ids uuidv4 hands out, in the order it does
Null == 0           \* JavaScript null / undefined of an id or a row
NoError == ""       \* an absent error message

\* error messages of the collaborators
ErrConnect == "pool.connect rejected"
ErrQuery == "query failed"
ErrRollback == "ROLLBACK failed"
ErrExtract == "extraction failed"
ErrNoMessage == "Cannot read properties of undefined (reading 'message')"
ErrNoJob == "Cannot read properties of undefined (reading 'status')"

VARIABLES
  batchJobs,   \* keys of the Map batchJobs (server.js:44)
  heap,        \* heap[j]: the jobStatus object created for job id j
  req,         \* req[j]: position of the POST /extract/batch handler that drew id j
  task,        \* task[j]: locals and position of processBatchInBackground(j, ..)
  manifests,   \* committed rows of table manifests: id -> row
  deliveries,  \* committed rows of table deliveries
  batch_jobs,  \* committed rows of table batch_jobs: job_id -> row
  batch_job_manifests, \* committed rows of table batch_job_manifests
  tx,          \* tx[j]: the open transaction of task j's storeManifest call
  checkedOut,  \* clients checked out of the pool and not yet released
  unlinked,    \* <<j, order>> of the files fs.unlink was called for
  faults,      \* rejected store calls so far
  res,         \* the HTTP response written by the last step, if any
  call         \* the store call or lookup request of the last step and its result

vars == <<batchJobs, heap, req, task, manifests, deliveries, batch_jobs,
          batch_job_manifests, tx, checkedOut, unlinked, faults, res, call>>

NoRes == [kind |-> "none", job |-> Null, status |-> "", total_files |-> 0,
          processed_files |-> 0, source |-> ""]

\* a job created with a status other than 'processing'
JobStatusInit_queued(n, storeInDb) ==
  [status |-> "queued", total_files |-> n, processed_files |-> 0,
   results |-> <<>>, errors |-> <<>>, error |-> NoError,
   completed_at |-> FALSE, failed_at |-> FALSE, store_in_db |-> storeInDb]

\* the object literal of server.js:356-364
JobStatusInit(n, storeInDb) ==
  [status |-> "processing", total_files |-> n, processed_files |-> 0,
   results |-> <<>>, errors |-> <<>>, error |-> NoError,
   completed_at |-> FALSE, failed_at |-> FALSE, store_in_db |-> storeInDb]

NoJobStatus ==
  [status |-> "none", total_files |-> 0, processed_files |-> 0,
   results |-> <<>>, errors |-> <<>>, error |-> NoError,
   completed_at |-> FALSE, failed_at |-> FALSE, store_in_db |-> FALSE]

\* locals of processBatchInBackground before it is called
NoTask ==
  [pc |-> "none", job |-> "none", files |-> 0, storeInDb |-> FALSE, order |-> 0,
   successfulFiles |-> 0, failedFiles |-> 0,
   nDel |-> 0, database_id |-> Null, database_error |-> NoError,
   dorder |-> 0, txError |-> NoError, rollbackIssued |-> FALSE,
   final |-> "", uncaught |-> NoError,
   extracted |-> <<>>]   \* how processPDF settled for each file so far

NoCall == [op |-> "none"]

NoTx == [open |-> FALSE, manifest |-> Null, count |-> 0, dels |-> {}]

\* JSON.stringify of a results / errors array into a json column
JsonStringify(arr) == [isNull |-> FALSE, json |-> arr]
JsonNull == [isNull |-> TRUE, json |-> <<>>]

\* the column defaults of table batch_jobs (the schema script is not part of
\* the sources; the statistics query of database-service.js:482-488 counts
\* rows by the status values 'processing', 'completed' and 'failed')
BatchJobDefaults ==
  [total_files |-> 0, processed_files |-> 0, successful_files |-> 0,
   failed_files |-> 0, status |-> "processing", results |-> JsonNull,
   errors |-> JsonNull, error_message |-> NoError, completed_at |-> FALSE]

\* the row INSERT INTO batch_jobs (job_id, total_files) writes
\* (database-service.js:336-340)
BatchJobRow(n) == [BatchJobDefaults EXCEPT !.total_files = n]

\* an id that is not fresh: every item of a job gets the id of its first item
NewManifestId_reused(j, order) == j * 10 + 1

\* the id the RETURNING clause of the manifest INSERT gives the row of item
\* `order` (0-based) of job j: one fresh surrogate id per INSERT
NewManifestId(j, order) == j * 10 + order + 1

Init ==
  /\ batchJobs = {}
  /\ heap = [j \in JobIds |-> NoJobStatus]
  /\ req = [j \in JobIds |-> "idle"]
  /\ task = [j \in JobIds |-> NoTask]
  /\ manifests = [m \in {} |-> 0]
  /\ deliveries = {}
  /\ batch_jobs = [j \in {} |-> 0]
  /\ batch_job_manifests = {}
  /\ tx = [j \in JobIds |-> NoTx]
  /\ checkedOut = 0
  /\ unlinked = {}
  /\ faults = 0
  /\ res = NoRes
  /\ call = NoCall

\* a store call may reject only while the run's fault budget lasts
Outcome(ok) == ok \/ faults < MaxFaults
Count(ok) == IF ok THEN faults ELSE faults + 1


\* ---------------------------------------------- processBatchInBackground
\* server.js:396-406: the call runs synchronously up to `await processPDF`
StartTask(n, storeInDb, present) ==
  [NoTask EXCEPT !.pc = "extract",
                 !.job = IF present THEN "ref" ELSE "undefined",
                 !.files = n, !.storeInDb = storeInDb]

\* the promise of processBatchInBackground rejects: nobody awaits or catches it
Crash(t, h, msg) == [t |-> [t EXCEPT !.pc = "crashed", !.uncaught = msg], h |-> h]

\* server.js:480-497, up to `await dbService.updateBatchJob` (or the end)
OuterCatch(t, h, msg) ==
  IF t.job = "undefined"
  THEN Crash(t, h, ErrNoJob)                         \* job.status = 'failed' throws
  ELSE [t |-> [t EXCEPT !.final = "failed",
                        !.pc = IF t.storeInDb THEN "update_connect" ELSE "done"],
        h |-> [h EXCEPT !.status = "failed", !.error = msg, !.failed_at = TRUE]]

\* the per-item catch rethrowing what it caught
RecordError_rethrow(t, h, msg, hasMessage) == OuterCatch(t, h, msg)

\* the per-item catch pushing the failed item onto results as well
RecordError_andResult(t, h, msg, hasMessage) ==
  IF ~hasMessage THEN OuterCatch(t, h, ErrNoMessage)
  ELSE IF t.job = "undefined" THEN OuterCatch(t, h, ErrNoJob)
  ELSE [t |-> [t EXCEPT !.failedFiles = @ + 1, !.pc = "unlink"],
        h |-> [h EXCEPT !.errors = Append(@, [filename |-> t.order, error |-> msg]),
                        !.results = Append(@, [filename |-> t.order,
                                               delivery_count |-> 0,
                                               database_id |-> Null,
                                               database_error |-> msg])]]

\* server.js:437-450: the per-item catch, up to `await fs.unlink`.
\* hasMessage is FALSE when the rejection value is null or undefined, so that
\* processingError.message throws inside the catch block
RecordError(t, h, msg, hasMessage) ==
  IF ~hasMessage THEN OuterCatch(t, h, ErrNoMessage)
  ELSE IF t.job = "undefined" THEN OuterCatch(t, h, ErrNoJob)  \* job.errors.push throws
  ELSE [t |-> [t EXCEPT !.failedFiles = @ + 1, !.pc = "unlink"],
        h |-> [h EXCEPT !.errors = Append(@, [filename |-> t.order, error |-> msg])]]

\* the element job.results.push appends: extractedData with its processing_info
ResultEntry(t) ==
  [filename |-> t.order, delivery_count |-> t.nDel,
   database_id |-> t.database_id, database_error |-> t.database_error]

\* the result put at the head of the list (unshift) instead of its end
RecordResult_unshift(t, h) ==
  IF t.job = "undefined"
  THEN RecordError(t, h, ErrNoJob, TRUE)
  ELSE [t |-> [t EXCEPT !.successfulFiles = @ + 1, !.pc = "unlink"],
        h |-> [h EXCEPT !.results = <<ResultEntry(t)>> \o @]]

\* server.js:434-435 and 449-450: push the result, up to `await fs.unlink`
RecordResult(t, h) ==
  IF t.job = "undefined"
  THEN RecordError(t, h, ErrNoJob, TRUE)             \* job.results.push throws
  ELSE [t |-> [t EXCEPT !.successfulFiles = @ + 1, !.pc = "unlink"],
        h |-> [h EXCEPT !.results = Append(@, ResultEntry(t))]]

\* the store try's catch annotating the error and rethrowing it
StoreFailed_fatal(t, h, msg) == OuterCatch([t EXCEPT !.database_error = msg], h, msg)

\* server.js:428-431: the store try's catch, then the push
StoreFailed(t, h, msg) == RecordResult([t EXCEPT !.database_error = msg], h)

\* the loop without job.processed_files++
AfterUnlink_noIncrement(t, h) ==
  IF t.job = "undefined" THEN OuterCatch(t, h, ErrNoJob)
  ELSE LET t1 == [t EXCEPT !.order = @ + 1, !.nDel = 0, !.database_id = Null,
                           !.database_error = NoError, !.dorder = 0,
                           !.txError = NoError, !.rollbackIssued = FALSE]
       IN IF t1.order < t.files
          THEN [t |-> [t1 EXCEPT !.pc = "extract"], h |-> h]
          ELSE [t |-> [t1 EXCEPT !.final = "completed",
                                 !.pc = IF t.storeInDb THEN "update_connect" ELSE "done"],
                h |-> [h EXCEPT !.status = "completed", !.completed_at = TRUE]]

\* server.js:455-463: after the unlink settled, to the next await
AfterUnlink(t, h) ==
  IF t.job = "undefined" THEN OuterCatch(t, h, ErrNoJob)
  ELSE LET h1 == [h EXCEPT !.processed_files = @ + 1]
           t1 == [t EXCEPT !.order = @ + 1, !.nDel = 0, !.database_id = Null,
                           !.database_error = NoError, !.dorder = 0,
                           !.txError = NoError, !.rollbackIssued = FALSE]
       IN IF t1.order < t.files
          THEN [t |-> [t1 EXCEPT !.pc = "extract"], h |-> h1]
          ELSE [t |-> [t1 EXCEPT !.final = "completed",
                                 !.pc = IF t.storeInDb THEN "update_connect" ELSE "done"],
                h |-> [h1 EXCEPT !.status = "completed", !.completed_at = TRUE]]

Apply(j, p) ==
  /\ task' = [task EXCEPT ![j] = p.t]
  /\ heap' = [heap EXCEPT ![j] = p.h]

\* `await processPDF(file.path)` settles (server.js:406-421)
Extract(j) ==
  /\ task[j].pc = "extract"
  /\ \E outcome \in {"ok", "error", "nonerror"}, n \in 0..MaxDeliveries :
       /\ outcome # "ok" => n = 0
       /\ LET t == [task[j] EXCEPT !.nDel = n, !.extracted = Append(@, outcome)]
          IN Apply(j, IF outcome = "ok"
                      THEN IF t.storeInDb
                           THEN [t |-> [t EXCEPT !.pc = "sm_connect"], h |-> heap[j]]
                           ELSE RecordResult(t, heap[j])
                      ELSE RecordError(t, heap[j], ErrExtract, outcome = "error"))
  /\ res' = NoRes
  /\ UNCHANGED <<call, batchJobs, req, manifests, deliveries, batch_jobs,
                 batch_job_manifests, tx, checkedOut, unlinked, faults>>

\* ------------------------------------------- DatabaseService.storeManifest
\* the row the manifest INSERT writes (database-service.js:77-96)
ManifestRow(t) == [delivery_count |-> t.nDel, original_filename |-> t.order]

\* storeDelivery called with the loop index itself, not order + 1
DeliveryRow_zeroBased(manifestId, order) ==
  [manifest_id |-> manifestId, delivery_order |-> order, item |-> order]

\* the row storeDelivery writes for deliveries[order], called with order + 1
\* (database-service.js:103 and 134-157)
DeliveryRow(manifestId, order) ==
  [manifest_id |-> manifestId, delivery_order |-> order + 1, item |-> order]

\* the INSERT issued on the pool instead of the transaction's client: it
\* autocommits
InsertDelivery_onPool(t, committed, row) ==
  [t |-> t, committed |-> committed \cup {row}]

\* where an INSERT issued on the transaction's client lands: in the
\* transaction, invisible to other clients until COMMIT
InsertDelivery(t, committed, row) ==
  [t |-> [t EXCEPT !.dels = @ \cup {row}], committed |-> committed]

\* `await this.pool.connect()` of storeManifest settles (database-service.js:51);
\* it is outside the try: a rejection leaves storeManifest at once
SmConnect(j, ok) ==
  /\ task[j].pc = "sm_connect"
  /\ Outcome(ok)
  /\ faults' = Count(ok)
  /\ IF ok
     THEN /\ checkedOut' = checkedOut + 1
          /\ task' = [task EXCEPT ![j].pc = "sm_begin"]
          /\ heap' = heap
     ELSE /\ checkedOut' = checkedOut
          /\ Apply(j, StoreFailed(task[j], heap[j], ErrConnect))
  /\ res' = NoRes
  /\ UNCHANGED <<call, batchJobs, req, manifests, deliveries, batch_jobs,
                 batch_job_manifests, tx, unlinked>>

\* a query of the try block rejected: control is in the catch, awaiting ROLLBACK
ToRollback(t) == [t EXCEPT !.pc = "sm_rollback", !.txError = ErrQuery]

\* `await client.query('BEGIN')` settles (database-service.js:54-77)
SmBegin(j, ok) ==
  /\ task[j].pc = "sm_begin"
  /\ Outcome(ok)
  /\ faults' = Count(ok)
  /\ IF ok
     THEN /\ tx' = [tx EXCEPT ![j] = [NoTx EXCEPT !.open = TRUE]]
          /\ task' = [task EXCEPT ![j].pc = "sm_insert_manifest"]
     ELSE /\ tx' = tx
          /\ task' = [task EXCEPT ![j] = ToRollback(@)]
  /\ res' = NoRes
  /\ UNCHANGED <<call, batchJobs, heap, req, manifests, deliveries, batch_jobs,
                 batch_job_manifests, checkedOut, unlinked>>

\* the manifest INSERT settles (database-service.js:77-103)
SmInsertManifest(j, ok) ==
  /\ task[j].pc = "sm_insert_manifest"
  /\ Outcome(ok)
  /\ faults' = Count(ok)
  /\ IF ok
     THEN /\ tx' = [tx EXCEPT ![j].manifest = NewManifestId(j, task[j].order),
                              ![j].count = task[j].nDel]
          /\ task' = [task EXCEPT ![j].dorder = 0,
                                  ![j].pc = IF task[j].nDel > 0
                                            THEN "sm_insert_delivery" ELSE "sm_commit"]
     ELSE /\ tx' = tx
          /\ task' = [task EXCEPT ![j] = ToRollback(@)]
  /\ res' = NoRes
  /\ UNCHANGED <<call, batchJobs, heap, req, manifests, deliveries, batch_jobs,
                 batch_job_manifests, checkedOut, unlinked>>

\* the INSERT of storeDelivery settles (database-service.js:102-104, 134-157)
SmInsertDelivery(j, ok) ==
  /\ task[j].pc = "sm_insert_delivery"
  /\ Outcome(ok)
  /\ faults' = Count(ok)
  /\ IF ok
     THEN LET p == InsertDelivery(tx[j], deliveries,
                                  DeliveryRow(tx[j].manifest, task[j].dorder))
          IN /\ tx' = [tx EXCEPT ![j] = p.t]
             /\ deliveries' = p.committed
             /\ task' = [task EXCEPT ![j].dorder = @ + 1,
                                     ![j].pc = IF task[j].dorder + 1 < task[j].nDel
                                               THEN "sm_insert_delivery" ELSE "sm_commit"]
     ELSE /\ tx' = tx
          /\ deliveries' = deliveries
          /\ task' = [task EXCEPT ![j] = ToRollback(@)]
  /\ res' = NoRes
  /\ UNCHANGED <<call, batchJobs, heap, req, manifests, batch_jobs,
                 batch_job_manifests, checkedOut, unlinked>>

\* `await client.query('COMMIT')` settles (database-service.js:106-117), then
\* server.js:422-425 up to the pool.connect of linkBatchManifest
SmCommit(j, ok) ==
  /\ task[j].pc = "sm_commit"
  /\ Outcome(ok)
  /\ faults' = Count(ok)
  /\ IF ok
     THEN /\ manifests' = [m \in DOMAIN manifests \cup {tx[j].manifest} |->
                            IF m = tx[j].manifest THEN ManifestRow(task[j])
                            ELSE manifests[m]]
          /\ deliveries' = deliveries \cup tx[j].dels
          /\ tx' = [tx EXCEPT ![j] = NoTx]
          /\ checkedOut' = checkedOut - 1            \* finally: client.release()
          /\ task' = [task EXCEPT ![j].database_id = tx[j].manifest,
                                  ![j].pc = "link_connect"]
     ELSE /\ UNCHANGED <<manifests, deliveries, tx, checkedOut>>
          /\ task' = [task EXCEPT ![j] = ToRollback(@)]
  /\ res' = NoRes
  /\ UNCHANGED <<call, batchJobs, heap, req, batch_jobs, batch_job_manifests, unlinked>>

\* `await client.query('ROLLBACK')` settles (database-service.js:111-117): the
\* transaction is gone either way (a client whose ROLLBACK fails has lost its
\* session), the error of the failed query or of the ROLLBACK is thrown, the
\* finally releases the client, and server.js:428-450 runs
SmRollback(j, ok) ==
  /\ task[j].pc = "sm_rollback"
  /\ Outcome(ok)
  /\ faults' = Count(ok)
  /\ tx' = [tx EXCEPT ![j] = NoTx]
  /\ checkedOut' = checkedOut - 1
  /\ Apply(j, StoreFailed([task[j] EXCEPT !.rollbackIssued = TRUE], heap[j],
                          IF ok THEN task[j].txError ELSE ErrRollback))
  /\ res' = NoRes
  /\ UNCHANGED <<call, batchJobs, req, manifests, deliveries, batch_jobs,
                 batch_job_manifests, unlinked>>

\* --------------------------------------- DatabaseService.linkBatchManifest
\* `await this.pool.connect()` of linkBatchManifest settles (database-service.js:426)
LinkConnect(j, ok) ==
  /\ task[j].pc = "link_connect"
  /\ Outcome(ok)
  /\ faults' = Count(ok)
  /\ IF ok
     THEN /\ checkedOut' = checkedOut + 1
          /\ task' = [task EXCEPT ![j].pc = "link_query"]
          /\ heap' = heap
     ELSE /\ checkedOut' = checkedOut
          /\ Apply(j, StoreFailed(task[j], heap[j], ErrConnect))
  /\ res' = NoRes
  /\ UNCHANGED <<call, batchJobs, req, manifests, deliveries, batch_jobs,
                 batch_job_manifests, tx, unlinked>>

\* the INSERT .. SELECT without its WHERE clause: one row per batch_jobs row
LinkRows_anyJob(jobId, manifestId, order) ==
  {[batch_job_id |-> k, manifest_id |-> manifestId, processing_order |-> order] :
     k \in DOMAIN batch_jobs}

\* INSERT INTO batch_job_manifests .. SELECT bj.id, $2, $3 FROM batch_jobs bj
\* WHERE bj.job_id = $1: one row per batch_jobs row of that job id
LinkRows(jobId, manifestId, order) ==
  IF jobId \in DOMAIN batch_jobs
  THEN {[batch_job_id |-> jobId, manifest_id |-> manifestId,
         processing_order |-> order]}
  ELSE {}

\* the INSERT of linkBatchManifest settles (database-service.js:429-438), then
\* server.js:427-450
LinkQuery(j, ok) ==
  /\ task[j].pc = "link_query"
  /\ Outcome(ok)
  /\ faults' = Count(ok)
  /\ checkedOut' = checkedOut - 1                   \* finally: client.release()
  /\ IF ok
     THEN /\ batch_job_manifests' = batch_job_manifests \cup
                LinkRows(j, task[j].database_id, task[j].order + 1)
          /\ Apply(j, RecordResult(task[j], heap[j]))
     ELSE /\ batch_job_manifests' = batch_job_manifests
          /\ Apply(j, StoreFailed(task[j], heap[j], ErrQuery))
  /\ res' = NoRes
  /\ UNCHANGED <<call, batchJobs, req, manifests, deliveries, batch_jobs, tx, unlinked>>

\* `await fs.unlink(file.path)` settles (server.js:449-463); a rejection is
\* only logged
Unlink(j) ==
  /\ task[j].pc = "unlink"
  /\ unlinked' = unlinked \cup {<<j, task[j].order>>}
  /\ Apply(j, AfterUnlink(task[j], heap[j]))
  /\ res' = NoRes
  /\ UNCHANGED <<call, batchJobs, req, manifests, deliveries, batch_jobs,
                 batch_job_manifests, tx, checkedOut, faults>>

\* ------------------------------------------ DatabaseService.updateBatchJob
\* the updates object without its failedFiles key
CompletedUpdates_noFailed(t, h) ==
  [status |-> "completed", processedFiles |-> t.files,
   successfulFiles |-> t.successfulFiles,
   results |-> h.results, errors |-> h.errors]

\* the updates object of the call after the loop (server.js:465-472)
CompletedUpdates(t, h) ==
  [status |-> "completed", processedFiles |-> t.files,
   successfulFiles |-> t.successfulFiles, failedFiles |-> t.failedFiles,
   results |-> h.results, errors |-> h.errors]

\* the updates object of the call in the outer catch (server.js:489-492)
FailedUpdates(t, h) == [status |-> "failed", errorMessage |-> h.error]

\* the SET clause updateBatchJob builds from the keys of updates, applied to
\* the row (database-service.js:354-417)
updateBatchJob(row, updates) ==
  LET has(k) == k \in DOMAIN updates
      r1 == IF has("status")
            THEN [row EXCEPT !.status = updates.status,
                             !.completed_at = IF updates.status = "completed"
                                              THEN TRUE ELSE @]
            ELSE row
      r2 == IF has("processedFiles")
            THEN [r1 EXCEPT !.processed_files = updates.processedFiles] ELSE r1
      r3 == IF has("successfulFiles")
            THEN [r2 EXCEPT !.successful_files = updates.successfulFiles] ELSE r2
      r4 == IF has("failedFiles")
            THEN [r3 EXCEPT !.failed_files = updates.failedFiles] ELSE r3
      r5 == IF has("results")
            THEN [r4 EXCEPT !.results = JsonStringify(updates.results)] ELSE r4
      r6 == IF has("errors")
            THEN [r5 EXCEPT !.errors = JsonStringify(updates.errors)] ELSE r5
  IN IF has("errorMessage") /\ updates.errorMessage # NoError
     THEN [r6 EXCEPT !.error_message = updates.errorMessage] ELSE r6

\* the updateBatchJob call without its own try: a rejected pool.connect
\* reaches the outer catch
UpdateConnect_unguarded(j, ok) ==
  /\ task[j].pc = "update_connect"
  /\ Outcome(ok)
  /\ faults' = Count(ok)
  /\ checkedOut' = IF ok THEN checkedOut + 1 ELSE checkedOut
  /\ IF ok
     THEN task' = [task EXCEPT ![j].pc = "update_query"] /\ heap' = heap
     ELSE Apply(j, OuterCatch(task[j], heap[j], ErrConnect))
  /\ res' = NoRes
  /\ UNCHANGED <<call, batchJobs, req, manifests, deliveries, batch_jobs,
                 batch_job_manifests, tx, unlinked>>

\* `await this.pool.connect()` of updateBatchJob settles (database-service.js:351);
\* a rejection is caught and logged at server.js:473 / 493
UpdateConnect(j, ok) ==
  /\ task[j].pc = "update_connect"
  /\ Outcome(ok)
  /\ faults' = Count(ok)
  /\ checkedOut' = IF ok THEN checkedOut + 1 ELSE checkedOut
  /\ task' = [task EXCEPT ![j].pc = IF ok THEN "update_query" ELSE "done"]
  /\ res' = NoRes
  /\ UNCHANGED <<call, batchJobs, heap, req, manifests, deliveries, batch_jobs,
                 batch_job_manifests, tx, unlinked>>

\* the UPDATE without its WHERE clause: it changes every row of batch_jobs
UpdateQuery_allRows(j, ok) ==
  /\ task[j].pc = "update_query"
  /\ Outcome(ok)
  /\ faults' = Count(ok)
  /\ checkedOut' = checkedOut - 1
  /\ batch_jobs' =
       IF ok
       THEN [k \in DOMAIN batch_jobs |->
               updateBatchJob(batch_jobs[k],
                              IF task[j].final = "completed"
                              THEN CompletedUpdates(task[j], heap[j])
                              ELSE FailedUpdates(task[j], heap[j]))]
       ELSE batch_jobs
  /\ task' = [task EXCEPT ![j].pc = "done"]
  /\ res' = NoRes
  /\ UNCHANGED <<call, batchJobs, heap, req, manifests, deliveries,
                 batch_job_manifests, tx, unlinked>>

\* the UPDATE of updateBatchJob settles (database-service.js:416-421): it
\* changes the rows WHERE job_id = $n, none when the job row was never created
UpdateQuery(j, ok) ==
  /\ task[j].pc = "update_query"
  /\ Outcome(ok)
  /\ faults' = Count(ok)
  /\ checkedOut' = checkedOut - 1                   \* finally: client.release()
  /\ batch_jobs' =
       IF ok /\ j \in DOMAIN batch_jobs
       THEN [batch_jobs EXCEPT ![j] =
               updateBatchJob(@, IF task[j].final = "completed"
                                 THEN CompletedUpdates(task[j], heap[j])
                                 ELSE FailedUpdates(task[j], heap[j]))]
       ELSE batch_jobs
  /\ task' = [task EXCEPT ![j].pc = "done"]
  /\ res' = NoRes
  /\ UNCHANGED <<call, batchJobs, heap, req, manifests, deliveries,
                 batch_job_manifests, tx, unlinked>>

\* ------------------------------------------------- POST /extract/batch
\* uuidv4() (server.js:353): an id no earlier submission drew
FreshJobId(j) == req[j] = "idle" /\ \A k \in JobIds : k < j => req[k] # "idle"

\* the body of the 200 response (server.js:380-386)
BatchStarted(j, n) ==
  [NoRes EXCEPT !.kind = "batch_started", !.job = j, !.status = "processing",
                !.total_files = n]

\* server.js:378-386: processBatchInBackground is called, not awaited; its
\* first segment runs inside the call, then the response is written
StartAndRespond(j, h) ==
  /\ task' = [task EXCEPT ![j] =
                StartTask(h.total_files, h.store_in_db, j \in batchJobs')]
  /\ req' = [req EXCEPT ![j] = "responded"]
  /\ res' = BatchStarted(j, h.total_files)

\* the validation skipped: the empty upload gets a job record
SubmitEmpty_createsJob ==
  /\ res' = [NoRes EXCEPT !.kind = "error_400"]
  /\ batchJobs' = batchJobs \cup {CHOOSE j \in JobIds : \A k \in JobIds : k <= j}
  /\ UNCHANGED <<call, heap, req, task, manifests, deliveries, batch_jobs,
                 batch_job_manifests, tx, checkedOut, unlinked, faults>>

\* a request without files (server.js:348-350)
SubmitEmpty ==
  /\ res' = [NoRes EXCEPT !.kind = "error_400"]
  /\ UNCHANGED <<call, batchJobs, heap, req, task, manifests, deliveries, batch_jobs,
                 batch_job_manifests, tx, checkedOut, unlinked, faults>>

\* a request with n files (server.js:352-371), up to the pool.connect of
\* createBatchJob, or to the response when store_in_db=false
Submit(j, n, storeInDb) ==
  /\ FreshJobId(j)
  /\ heap' = [heap EXCEPT ![j] = JobStatusInit(n, storeInDb)]
  /\ batchJobs' = batchJobs \cup {j}
  /\ IF storeInDb
     THEN /\ req' = [req EXCEPT ![j] = "create_connect"]
          /\ res' = NoRes
          /\ task' = task
     ELSE StartAndRespond(j, heap'[j])
  /\ UNCHANGED <<call, manifests, deliveries, batch_jobs, batch_job_manifests, tx,
                 checkedOut, unlinked, faults>>

\* `await this.pool.connect()` of createBatchJob settles (database-service.js:333);
\* a rejection is caught and logged at server.js:372-374
CreateConnect(j, ok) ==
  /\ req[j] = "create_connect"
  /\ Outcome(ok)
  /\ faults' = Count(ok)
  /\ batchJobs' = batchJobs
  /\ IF ok
     THEN /\ checkedOut' = checkedOut + 1
          /\ req' = [req EXCEPT ![j] = "create_query"]
          /\ res' = NoRes
          /\ task' = task
     ELSE /\ checkedOut' = checkedOut
          /\ StartAndRespond(j, heap[j])
  /\ UNCHANGED <<call, heap, manifests, deliveries, batch_jobs, batch_job_manifests,
                 tx, unlinked>>

\* createBatchJob called without its own try: a rejected INSERT reaches the
\* handler's catch, which answers 500 and starts no task
CreateQuery_unguarded(j, ok) ==
  /\ req[j] = "create_query"
  /\ Outcome(ok)
  /\ faults' = Count(ok)
  /\ batchJobs' = batchJobs
  /\ checkedOut' = checkedOut - 1
  /\ IF ok
     THEN /\ batch_jobs' = [k \in DOMAIN batch_jobs \cup {j} |->
                             IF k = j THEN BatchJobRow(heap[j].total_files)
                             ELSE batch_jobs[k]]
          /\ StartAndRespond(j, heap[j])
     ELSE /\ batch_jobs' = batch_jobs
          /\ task' = task
          /\ req' = [req EXCEPT ![j] = "responded"]
          /\ res' = [NoRes EXCEPT !.kind = "error_500"]
  /\ UNCHANGED <<call, heap, manifests, deliveries, batch_job_manifests, tx, unlinked>>

\* the INSERT of createBatchJob settles (database-service.js:336-346), then
\* server.js:377-386
CreateQuery(j, ok) ==
  /\ req[j] = "create_query"
  /\ Outcome(ok)
  /\ faults' = Count(ok)
  /\ batchJobs' = batchJobs
  /\ checkedOut' = checkedOut - 1                   \* finally: client.release()
  /\ batch_jobs' =
       IF ok
       THEN [k \in DOMAIN batch_jobs \cup {j} |->
               IF k = j THEN BatchJobRow(heap[j].total_files) ELSE batch_jobs[k]]
       ELSE batch_jobs
  /\ StartAndRespond(j, heap[j])
  /\ UNCHANGED <<call, heap, manifests, deliveries, batch_job_manifests, tx, unlinked>>

\* ------------------------------------------------ DELETE /batch/:jobId
\* a delete that removes the durable row as well
DeleteJob_alsoDurable(j) ==
  /\ IF j \in batchJobs
     THEN /\ batchJobs' = batchJobs \ {j}
          /\ res' = [NoRes EXCEPT !.kind = "deleted", !.job = j]
     ELSE /\ batchJobs' = batchJobs
          /\ res' = [NoRes EXCEPT !.kind = "error_404", !.job = j]
  /\ batch_jobs' = [k \in DOMAIN batch_jobs \ {j} |-> batch_jobs[k]]
  /\ UNCHANGED <<call, heap, req, task, manifests, deliveries,
                 batch_job_manifests, tx, checkedOut, unlinked, faults>>

\* server.js:147-156
DeleteJob(j) ==
  /\ IF j \in batchJobs
     THEN /\ batchJobs' = batchJobs \ {j}
          /\ res' = [NoRes EXCEPT !.kind = "deleted", !.job = j]
     ELSE /\ batchJobs' = batchJobs
          /\ res' = [NoRes EXCEPT !.kind = "error_404", !.job = j]
  /\ UNCHANGED <<call, heap, req, task, manifests, deliveries, batch_jobs,
                 batch_job_manifests, tx, checkedOut, unlinked, faults>>

\* -------------------------------------------- GET /batch/status/:jobId
\* DatabaseService.getBatchJob (database-service.js:442-456)
getBatchJob(jobId) == IF jobId \in DOMAIN batch_jobs THEN batch_jobs[jobId] ELSE JsonNull

\* the handler asking the durable store first and the Map only on a miss
StatusView_durableFirst(j, ok) ==
  IF ok /\ j \in DOMAIN batch_jobs
  THEN LET dbJob == getBatchJob(j)
       IN [NoRes EXCEPT !.kind = "status", !.job = j, !.status = dbJob.status,
                        !.total_files = dbJob.total_files,
                        !.processed_files = dbJob.processed_files,
                        !.source = "database"]
  ELSE IF j \in batchJobs
  THEN [NoRes EXCEPT !.kind = "status", !.job = j, !.status = heap[j].status,
                     !.total_files = heap[j].total_files,
                     !.processed_files = heap[j].processed_files,
                     !.source = "memory"]
  ELSE [NoRes EXCEPT !.kind = "error_404", !.job = j]

\* the body the handler writes (server.js:501-536); ok says whether the
\* pool.connect and the SELECT of getBatchJob succeeded
StatusView(j, ok) ==
  IF j \in batchJobs
  THEN [NoRes EXCEPT !.kind = "status", !.job = j, !.status = heap[j].status,
                     !.total_files = heap[j].total_files,
                     !.processed_files = heap[j].processed_files,
                     !.source = "memory"]
  ELSE IF ok /\ j \in DOMAIN batch_jobs
  THEN LET dbJob == getBatchJob(j)
       IN [NoRes EXCEPT !.kind = "status", !.job = j, !.status = dbJob.status,
                        !.total_files = dbJob.total_files,
                        !.processed_files = dbJob.processed_files,
                        !.source = "database"]
  ELSE [NoRes EXCEPT !.kind = "error_404", !.job = j]

GetStatus(j, ok) ==
  /\ res' = StatusView(j, ok)
  /\ UNCHANGED <<call, batchJobs, heap, req, task, manifests, deliveries, batch_jobs,
                 batch_job_manifests, tx, checkedOut, unlinked, faults>>

\* ---------------------------------------- DatabaseService.getManifestById
\* the rows of a SELECT .. ORDER BY delivery_order, as an array
RECURSIVE OrderByDeliveryOrder(_)
OrderByDeliveryOrder(rows) ==
  IF rows = {} THEN <<>>
  ELSE LET first == CHOOSE r \in rows :
                      \A q \in rows : r.delivery_order <= q.delivery_order
       IN <<first>> \o OrderByDeliveryOrder(rows \ {first})

\* database-service.js:161-189: null when no manifest row has the id, else the
\* row with its deliveries
getManifestById(manifestId) ==
  IF manifestId \notin DOMAIN manifests
  THEN [found |-> FALSE, delivery_count |-> 0, deliveries |-> <<>>]
  ELSE [found |-> TRUE,
        delivery_count |-> manifests[manifestId].delivery_count,
        deliveries |-> OrderByDeliveryOrder(
                         {d \in deliveries : d.manifest_id = manifestId})]

\* ------------------------------------------------------ JavaScript values
\* a value of the extractor's output: undefined, a string (the sequence of
\* its characters), a number (in thousandths) or NaN
Undefined == [type |-> "undefined", chars |-> <<>>, milli |-> 0]
NaN == [type |-> "nan", chars |-> <<>>, milli |-> 0]
JsString(s) == [type |-> "string", chars |-> s, milli |-> 0]
JsNumber(m) == [type |-> "number", chars |-> <<>>, milli |-> m]

\* ToBoolean, and `v || d`
Truthy(v) ==
  \/ v.type = "string" /\ v.chars # <<>>
  \/ v.type = "number" /\ v.milli # 0
OrElse(v, d) == IF Truthy(v) THEN v ELSE d

DigitValue ==
  ("0" :> 0) @@ ("1" :> 1) @@ ("2" :> 2) @@ ("3" :> 3) @@ ("4" :> 4) @@
  ("5" :> 5) @@ ("6" :> 6) @@ ("7" :> 7) @@ ("8" :> 8) @@ ("9" :> 9)
IsDigit(c) == c \in DOMAIN DigitValue
Drop(s, n) == SubSeq(s, n + 1, Len(s))

\* s without its leading / trailing spaces
TrimStart(s) ==
  Drop(s, CHOOSE n \in 0..Len(s) :
            /\ \A i \in 1..n : s[i] = " "
            /\ n < Len(s) => s[n + 1] # " ")

TrimEnd(s) ==
  SubSeq(s, 1, CHOOSE n \in 0..Len(s) :
                 /\ \A i \in (n + 1)..Len(s) : s[i] = " "
                 /\ n > 0 => s[n] # " ")

\* the digits s starts with
DigitPrefix(s) ==
  SubSeq(s, 1, CHOOSE n \in 0..Len(s) :
                 /\ \A i \in 1..n : IsDigit(s[i])
                 /\ n < Len(s) => ~IsDigit(s[n + 1]))

\* the number the first n digits of ds write
RECURSIVE DigitsValueTo(_, _)
DigitsValueTo(ds, n) ==
  IF n = 0 THEN 0 ELSE DigitsValueTo(ds, n - 1) * 10 + DigitValue[ds[n]]

DigitsValue(ds) == DigitsValueTo(ds, Len(ds))

\* a decimal literal read from the start of a string: sign, integer digits
\* ds and fraction digits frac of the unsigned string body
SignOf(s) == IF s # <<>> /\ Head(s) = "-" THEN -1 ELSE 1
Unsigned(s) == IF s # <<>> /\ Head(s) \in {"-", "+"} THEN Tail(s) ELSE s
FractionOf(rest) ==
  IF rest # <<>> /\ Head(rest) = "." THEN DigitPrefix(Tail(rest)) ELSE <<>>

\* none: no digit at all; noInt: no integer digit; int, milli: the value of
\* the integer part and of the whole literal, in thousandths; taken: the
\* characters of body the literal takes
Literal(sign, body, ds, frac) ==
  [none |-> ds = <<>> /\ frac = <<>>,
   noInt |-> ds = <<>>,
   int |-> sign * DigitsValue(ds) * 1000,
   milli |-> sign * (DigitsValue(ds) * 1000
                     + DigitsValue(SubSeq(frac \o <<"0", "0", "0">>, 1, 3))),
   taken |-> IF Len(body) > Len(ds) /\ body[Len(ds) + 1] = "."
                /\ (ds # <<>> \/ frac # <<>>)
             THEN Len(ds) + 1 + Len(frac) ELSE Len(ds)]

LiteralAfter(sign, body, ds) ==
  Literal(sign, body, ds, FractionOf(Drop(body, Len(ds))))

NumericPrefix(s) == LiteralAfter(SignOf(s), Unsigned(s), DigitPrefix(Unsigned(s)))

FloatOf(p) == IF p.none THEN NaN ELSE JsNumber(p.milli)
IntOf(p) == IF p.noInt THEN NaN ELSE JsNumber(p.int)
Trunc(milli) == (IF milli < 0 THEN -1 ELSE 1) * ((IF milli < 0 THEN -milli ELSE milli) \div 1000)

\* parseFloat(v): the leading decimal literal of String(v), NaN without one
parseFloat(v) ==
  IF v.type = "number" THEN v
  ELSE IF v.type = "string" THEN FloatOf(NumericPrefix(TrimStart(v.chars)))
  ELSE NaN

\* parseInt(v): the leading integer literal of String(v), NaN without one; a
\* number is truncated
parseInt(v) ==
  IF v.type = "number" THEN JsNumber(Trunc(v.milli) * 1000)
  ELSE IF v.type = "string" THEN IntOf(NumericPrefix(TrimStart(v.chars)))
  ELSE NaN

\* ToNumber(v), applied by `month - 1` and by the Date constructor: the whole
\* trimmed string must be a decimal literal; the empty string is 0
WholeOf(n, p) == IF ~p.none /\ p.taken = n THEN JsNumber(p.milli) ELSE NaN
NumberOf(s) ==
  IF s = <<>> THEN JsNumber(0) ELSE WholeOf(Len(Unsigned(s)), NumericPrefix(s))
ToNumber(v) ==
  IF v.type = "number" THEN v
  ELSE IF v.type = "string" THEN NumberOf(TrimEnd(TrimStart(v.chars)))
  ELSE NaN

\* String.prototype.split('/'): the pieces between the slashes
Split(s) ==
  LET slashes == {i \in 1..Len(s) : s[i] = "/"}
      SlashAt(k) == IF k = 0 THEN 0
                    ELSE IF k > Cardinality(slashes) THEN Len(s) + 1
                    ELSE CHOOSE i \in slashes : Cardinality({h \in slashes : h < i}) = k - 1
  IN [k \in 1..(Cardinality(slashes) + 1) |->
        SubSeq(s, SlashAt(k - 1) + 1, SlashAt(k) - 1)]

\* element k of an array destructuring
Part(parts, k) == IF k <= Len(parts) THEN JsString(parts[k]) ELSE Undefined

\* ------------------------------------------------------------ dates
DateNull == [kind |-> "null", y |-> 0, m |-> 0, d |-> 0]
InvalidDate == [kind |-> "invalid", y |-> 0, m |-> 0, d |-> 0]

DaysIn(y, m0) ==
  IF m0 = 1
  THEN IF (y % 4 = 0 /\ y % 100 # 0) \/ y % 400 = 0 THEN 29 ELSE 28
  ELSE IF m0 \in {3, 5, 8, 10} THEN 30 ELSE 31

\* MakeDay: a day number outside the month rolls into the neighbouring months
RECURSIVE NormDay(_, _, _)
NormDay(y, m0, d) ==
  IF d < 1
  THEN LET py == IF m0 = 0 THEN y - 1 ELSE y
           pm == IF m0 = 0 THEN 11 ELSE m0 - 1
       IN NormDay(py, pm, d + DaysIn(py, pm))
  ELSE IF d > DaysIn(y, m0)
  THEN NormDay(IF m0 = 11 THEN y + 1 ELSE y, IF m0 = 11 THEN 0 ELSE m0 + 1,
               d - DaysIn(y, m0))
  ELSE [kind |-> "date", y |-> y, m |-> m0 + 1, d |-> d]

\* new Date(year, monthIndex, day): Invalid Date when an argument is NaN;
\* years 0..99 are 1900..1999
FullYear(y) == IF y \in 0..99 THEN 1900 + y ELSE y
MakeDate(y, m, d) ==
  IF "nan" \in {y.type, m.type, d.type} THEN InvalidDate
  ELSE NormDay(FullYear(Trunc(y.milli)) + (Trunc(m.milli) \div 12),
               Trunc(m.milli) % 12, Trunc(d.milli))
NewDate(year, monthIndex, day) ==
  MakeDate(ToNumber(year), ToNumber(monthIndex), ToNumber(day))

\* `month - 1`
MinusOne(n) == IF n.type = "nan" THEN NaN ELSE JsNumber(n.milli - 1000)

\* const [day, month, year] = parts; new Date(year, month - 1, day)
DateOfParts(parts) ==
  NewDate(Part(parts, 3), MinusOne(ToNumber(Part(parts, 2))), Part(parts, 1))

\* database-service.js:59-68: null for a missing date; the catch is reached
\* only when the value has no split method
ParsePlannedDate(v) ==
  IF ~Truthy(v) THEN DateNull
  ELSE IF v.type # "string" THEN DateNull
  ELSE DateOfParts(Split(v.chars))

\* --------------------------------- DatabaseService, one call at a time
\* what a column of the schema accepts as a parameter value: an int column
\* and a date column reject NaN and Invalid Date, a numeric column stores NaN
IntColumnAccepts(v) == v.type = "number"
NumericColumnAccepts(v) == v.type \in {"number", "nan"}
DateColumnAccepts(date) == date.kind # "invalid"

\* a generated surrogate id: 36 characters, hyphens after 8, 13, 18 and 23
Token(c) == [i \in 1..36 |-> IF i \in {9, 14, 19, 24} THEN "-" ELSE c]
GeneratedId == Token("a")

\* the parameters of the manifest INSERT (database-service.js:59-96)
ManifestParams(manifestData) ==
  [manifest_id |-> OrElse(manifestData.manifest_id, JsString(<<>>)).chars,
   planned_delivery_date |-> ParsePlannedDate(manifestData.planned_delivery_date),
   delivery_count |-> Len(manifestData.deliveries),
   original_filename |-> 0,
   created_at |-> Cardinality(DOMAIN manifests)]

\* the parameters of the INSERT of storeDelivery for deliveries[order]
\* (database-service.js:134-157)
DeliveryParams(manifestId, delivery, order) ==
  [postcode |-> OrElse(delivery.postcode, JsString(<<>>)).chars,
   est_weight_kg |-> parseFloat(OrElse(delivery.est_weight_kg, JsNumber(0))),
   total_cases |-> parseInt(OrElse(delivery.total_cases, JsNumber(0)))]
  @@ DeliveryRow(manifestId, order)

\* what storeManifest leaves behind for the parameters of its INSERTs: the
\* first INSERT the store rejects sends it to the ROLLBACK and the throw
\* (database-service.js:106-117)
StoreRows(manifest, rows) ==
  LET rejected == \/ ~DateColumnAccepts(manifest.planned_delivery_date)
                  \/ \E i \in DOMAIN rows :
                       \/ ~NumericColumnAccepts(rows[i].est_weight_kg)
                       \/ ~IntColumnAccepts(rows[i].total_cases)
  IN [threw |-> rejected, id |-> GeneratedId, manifest |-> manifest,
      deliveries |-> IF rejected THEN {} ELSE {rows[i] : i \in DOMAIN rows}]

\* storeManifest without a failing connection (database-service.js:50-118)
storeManifest(manifestData) ==
  StoreRows(ManifestParams(manifestData),
            [i \in 1..Len(manifestData.deliveries) |->
               DeliveryParams(GeneratedId, manifestData.deliveries[i], i - 1)])

\* the tables and the caller's view after a storeManifest call returned r
Stored(manifestData, r) ==
  /\ manifests' = IF r.threw THEN manifests ELSE (r.id :> r.manifest)
  /\ deliveries' = IF r.threw THEN deliveries ELSE r.deliveries
  /\ call' = [op |-> "storeManifest", arg |-> manifestData, threw |-> r.threw]

\* the first call of a run: one extraction handed to storeManifest of an
\* empty store
StoreExtracted(manifestData) ==
  /\ DOMAIN manifests = {}
  /\ call.op = "none"
  /\ Stored(manifestData, storeManifest(manifestData))
  /\ UNCHANGED <<batchJobs, heap, req, task, batch_jobs, batch_job_manifests,
                 tx, checkedOut, unlinked, faults, res>>

\* ------------------------------------------- GET /manifests/:manifestId
\* database-service.js:192-218: the most recently created manifest with the
\* reference, with its deliveries
getManifestByRef(manifestRef) ==
  LET rows == {m \in DOMAIN manifests : manifests[m].manifest_id = manifestRef}
  IN IF rows = {}
     THEN [found |-> FALSE, delivery_count |-> 0, deliveries |-> <<>>]
     ELSE getManifestById(CHOOSE m \in rows :
                            \A k \in rows : manifests[k].created_at <= manifests[m].created_at)

\* a dispatch on the length alone
IsSurrogateIdShape_lengthOnly(manifestId) == Len(manifestId) = 36

\* server.js:63: manifestId.length === 36 && manifestId.includes('-')
IsSurrogateIdShape(manifestId) ==
  Len(manifestId) = 36 /\ \E i \in 1..Len(manifestId) : manifestId[i] = "-"

\* the response for what the lookup returned (server.js:71-75)
Resolved(manifestId, path, manifest) ==
  [op |-> "resolve", arg |-> manifestId, path |-> path,
   status |-> IF manifest.found THEN "ok" ELSE "error_404",
   manifest |-> manifest]

\* server.js:57-81
Resolve(manifestId) ==
  IF IsSurrogateIdShape(manifestId)
  THEN Resolved(manifestId, "id", getManifestById(manifestId))
  ELSE Resolved(manifestId, "ref", getManifestByRef(manifestId))

ResolveRequest(manifestId) ==
  /\ call' = Resolve(manifestId)
  /\ UNCHANGED <<batchJobs, heap, req, task, manifests, deliveries, batch_jobs,
                 batch_job_manifests, tx, checkedOut, unlinked, faults, res>>

\* --------------------------------------------------- GET /deliveries
\* `s LIKE pattern`: % matches any run of characters, _ any one character,
\* a backslash takes the next character literally
RECURSIVE Like(_, _)
Like(s, pattern) ==
  IF pattern = <<>> THEN s = <<>>
  ELSE IF Head(pattern) = "%"
  THEN Like(s, Tail(pattern)) \/ (s # <<>> /\ Like(Tail(s), pattern))
  ELSE IF Head(pattern) = "_"
  THEN s # <<>> /\ Like(Tail(s), Tail(pattern))
  ELSE IF Head(pattern) = "\\" /\ Len(pattern) >= 2
  THEN s # <<>> /\ Head(s) = pattern[2] /\ Like(Tail(s), Drop(pattern, 2))
  ELSE s # <<>> /\ Head(s) = Head(pattern) /\ Like(Tail(s), Tail(pattern))

\* filters.limit || 100 (server.js:90, database-service.js:312)
DefaultLimit == 100

\* LIMIT n OFFSET 0
Limit(rows, n) == SubSeq(rows, 1, IF Len(rows) < n THEN Len(rows) ELSE n)

\* the WHERE clause built for filters.postcode (database-service.js:283-294)
PostcodeCondition(filters, d) ==
  IF ~Truthy(filters.postcode) THEN TRUE
  ELSE IF Len(filters.postcode.chars) <= 4
  THEN Like(d.postcode, filters.postcode.chars \o <<"%">>)
  ELSE d.postcode = filters.postcode.chars

\* database-service.js:275-329 with a postcode filter only: the matching
\* rows by delivery_order, the first `limit` of them
searchDeliveries(filters) ==
  Limit(OrderByDeliveryOrder({d \in deliveries : PostcodeCondition(filters, d)}),
        filters.limit)

\* server.js:84-110
SearchRequest(postcode) ==
  /\ call' = [op |-> "searchDeliveries", arg |-> postcode,
              rows |-> searchDeliveries([postcode |-> postcode, limit |-> DefaultLimit])]
  /\ UNCHANGED <<batchJobs, heap, req, task, manifests, deliveries, batch_jobs,
                 batch_job_manifests, tx, checkedOut, unlinked, faults, res>>

\* ------------------------------------------------ inputs of the calls
PostcodeInputs ==
  {<<"S", "W", "1", "A", " ", "1", "A", "A">>,
   <<"S", "W", "1", "B", " ", "2", "B", "B">>,
   <<"S", "W", "2", " ", "1", "A", "A">>}

\* a numeric field of a delivery: missing, empty, numeric, non-numeric
NumericInputs ==
  {Undefined, JsString(<<>>), JsString(<<"1", "2", ".", "5">>),
   JsString(<<"a", "b", "c">>)}

\* deliveries with at most one of the two numeric fields not a number
DeliveryInputs ==
  {d \in [postcode : {JsString(p) : p \in PostcodeInputs},
          est_weight_kg : NumericInputs, total_cases : NumericInputs] :
     JsString(<<"1", "2", ".", "5">>) \in {d.est_weight_kg, d.total_cases}}

\* planned_delivery_date: missing, DD/MM/YYYY, not a date, a day the month
\* does not have, not a string
DateInputs ==
  {Undefined,
   JsString(<<"1", "5", "/", "0", "1", "/", "2", "0", "2", "4">>),
   JsString(<<"a", "b", "c">>),
   JsString(<<"3", "1", "/", "0", "2", "/", "2", "0", "2", "4">>),
   JsNumber(15000)}

\* a manifest reference: a short one, and one of 36 characters with a hyphen
ShortRef == <<"M", "1">>
LongRef == [i \in 1..36 |-> IF i = 2 THEN "-" ELSE "M"]

ManifestInputs ==
  [manifest_id : {JsString(ShortRef), JsString(LongRef)},
   planned_delivery_date : DateInputs,
   deliveries : UNION {[1..n -> DeliveryInputs] : n \in 0..MaxDeliveries}]

\* the :manifestId of a lookup: the generated id, an id no row has, the two
\* references, and strings that miss the shape by a character or the hyphen
IdentifierInputs ==
  {GeneratedId, Token("b"), ShortRef, LongRef,
   [i \in 1..36 |-> "a"], SubSeq(GeneratedId, 1, 35), GeneratedId \o <<"a">>}

\* the postcode parameter of a search: absent, areas, a full postcode, and
\* areas written with the characters LIKE gives a meaning to
FilterInputs ==
  {Undefined, JsString(<<"S", "W", "1">>), JsString(<<"S", "W", "2">>),
   JsString(<<"S", "W", "1", "A", " ", "1", "A", "A">>),
   JsString(<<"S", "W", "_">>), JsString(<<"%">>)}

\* ------------------------------------------------------ specification
\* the segments of one upload and of the requests about its job id
JobStep(j) ==
  \/ \E n \in 1..MaxFiles, s \in BOOLEAN : Submit(j, n, s)
  \/ \E ok \in BOOLEAN : CreateConnect(j, ok)
  \/ \E ok \in BOOLEAN : CreateQuery(j, ok)
  \/ Extract(j)
  \/ \E ok \in BOOLEAN : SmConnect(j, ok)
  \/ \E ok \in BOOLEAN : SmBegin(j, ok)
  \/ \E ok \in BOOLEAN : SmInsertManifest(j, ok)
  \/ \E ok \in BOOLEAN : SmInsertDelivery(j, ok)
  \/ \E ok \in BOOLEAN : SmCommit(j, ok)
  \/ \E ok \in BOOLEAN : SmRollback(j, ok)
  \/ \E ok \in BOOLEAN : LinkConnect(j, ok)
  \/ \E ok \in BOOLEAN : LinkQuery(j, ok)
  \/ Unlink(j)
  \/ \E ok \in BOOLEAN : UpdateConnect(j, ok)
  \/ \E ok \in BOOLEAN : UpdateQuery(j, ok)
  \/ DeleteJob(j)
  \/ \E ok \in BOOLEAN : GetStatus(j, ok)

\* one upload, with every interleaving of status reads and deletes of its id
Next == SubmitEmpty \/ JobStep(1)

Spec == Init /\ [][Next]_vars

\* ------------------------------------------- DatabaseService.initialize
\* where the initialize call of startServer is (database-service.js:15-39)
InitializeCall(pc) == [op |-> "initialize", pc |-> pc]

\* `await this.pool.connect()` of initialize settles (database-service.js:30);
\* a rejection is caught, logged and rethrown (35-38)
InitializeConnect(ok) ==
  /\ call = NoCall
  /\ Outcome(ok)
  /\ faults' = Count(ok)
  /\ checkedOut' = IF ok THEN checkedOut + 1 ELSE checkedOut
  /\ call' = InitializeCall(IF ok THEN "query" ELSE "threw")
  /\ UNCHANGED <<batchJobs, heap, req, task, manifests, deliveries, batch_jobs,
                 batch_job_manifests, tx, unlinked, res>>

\* `await client.query('SELECT NOW()')` settles (database-service.js:31-38):
\* client.release() is the statement after it, inside the try and not in a
\* finally, so a rejection goes to the catch past the release
InitializeQuery(ok) ==
  /\ call = InitializeCall("query")
  /\ Outcome(ok)
  /\ faults' = Count(ok)
  /\ checkedOut' = IF ok THEN checkedOut - 1 ELSE checkedOut
  /\ call' = InitializeCall(IF ok THEN "returned" ELSE "threw")
  /\ UNCHANGED <<batchJobs, heap, req, task, manifests, deliveries, batch_jobs,
                 batch_job_manifests, tx, unlinked, res>>

\* the server from its start: startServer awaits initializeServices before
\* app.listen (server.js:240-253), so requests are served once initialize
\* has returned; when initialize throws, the catch of initializeServices
\* throws in turn (server.js:51-54) and the process exits
NextStart ==
  \/ \E ok \in BOOLEAN : InitializeConnect(ok)
  \/ \E ok \in BOOLEAN : InitializeQuery(ok)
  \/ call = InitializeCall("returned") /\ Next

SpecStart == Init /\ [][NextStart]_vars

\* ------------------------------------------------------ process restart
\* the statement task j or its handler has in flight, applied to the tables:
\* the store may still execute a statement it received before the process
\* died.  The statements of an open transaction are rolled back with it.
InFlightApplied(j) ==
  [batch_jobs |->
     IF req[j] = "create_query"
     THEN [k \in DOMAIN batch_jobs \cup {j} |->
             IF k = j THEN BatchJobRow(heap[j].total_files) ELSE batch_jobs[k]]
     ELSE IF task[j].pc = "update_query" /\ j \in DOMAIN batch_jobs
     THEN [batch_jobs EXCEPT ![j] =
             updateBatchJob(@, IF task[j].final = "completed"
                               THEN CompletedUpdates(task[j], heap[j])
                               ELSE FailedUpdates(task[j], heap[j]))]
     ELSE batch_jobs,
   batch_job_manifests |->
     IF task[j].pc = "link_query"
     THEN batch_job_manifests \cup LinkRows(j, task[j].database_id, task[j].order + 1)
     ELSE batch_job_manifests,
   manifests |->
     IF task[j].pc = "sm_commit"
     THEN [m \in DOMAIN manifests \cup {tx[j].manifest} |->
             IF m = tx[j].manifest THEN ManifestRow(task[j]) ELSE manifests[m]]
     ELSE manifests,
   deliveries |->
     IF task[j].pc = "sm_commit" THEN deliveries \cup tx[j].dels ELSE deliveries]

InFlightLost ==
  [batch_jobs |-> batch_jobs, batch_job_manifests |-> batch_job_manifests,
   manifests |-> manifests, deliveries |-> deliveries]

\* the process dies while the task of job j is in its item loop and is
\* started again: the Map batchJobs (server.js:44) and every task and
\* handler are gone, the open transactions are rolled back and the pool is
\* new; the tables and the uploaded files stay.  The job ids the dead
\* process drew are never drawn again (uuidv4, server.js:353).
Restart(j, applied) ==
  /\ task[j].pc \in {"extract", "sm_connect", "sm_begin", "sm_insert_manifest",
                      "sm_insert_delivery", "sm_commit", "sm_rollback",
                      "link_connect", "link_query", "unlink"}
  /\ LET db == IF applied THEN InFlightApplied(j) ELSE InFlightLost
     IN /\ batch_jobs' = db.batch_jobs
        /\ batch_job_manifests' = db.batch_job_manifests
        /\ manifests' = db.manifests
        /\ deliveries' = db.deliveries
  /\ batchJobs' = {}
  /\ heap' = [k \in JobIds |-> NoJobStatus]
  /\ task' = [k \in JobIds |-> NoTask]
  /\ tx' = [k \in JobIds |-> NoTx]
  /\ checkedOut' = 0
  /\ req' = [k \in JobIds |-> IF req[k] = "idle" THEN "idle" ELSE "gone"]
  /\ res' = NoRes
  /\ UNCHANGED <<call, unlinked, faults>>

\* the segments of an upload and of its task, without the requests about
\* its job id
RunStep(j) ==
  \/ \E n \in 1..MaxFiles, s \in BOOLEAN : Submit(j, n, s)
  \/ \E ok \in BOOLEAN : CreateConnect(j, ok)
  \/ \E ok \in BOOLEAN : CreateQuery(j, ok)
  \/ Extract(j)
  \/ \E ok \in BOOLEAN : SmConnect(j, ok)
  \/ \E ok \in BOOLEAN : SmBegin(j, ok)
  \/ \E ok \in BOOLEAN : SmInsertManifest(j, ok)
  \/ \E ok \in BOOLEAN : SmInsertDelivery(j, ok)
  \/ \E ok \in BOOLEAN : SmCommit(j, ok)
  \/ \E ok \in BOOLEAN : SmRollback(j, ok)
  \/ \E ok \in BOOLEAN : LinkConnect(j, ok)
  \/ \E ok \in BOOLEAN : LinkQuery(j, ok)
  \/ Unlink(j)
  \/ \E ok \in BOOLEAN : UpdateConnect(j, ok)
  \/ \E ok \in BOOLEAN : UpdateQuery(j, ok)

\* one upload whose process dies mid-batch; after the restart, the requests
\* about its job id and a second upload
NextCrash ==
  \/ RunStep(1)
  \/ \E applied \in BOOLEAN : Restart(1, applied)
  \/ DeleteJob(1)
  \/ \E ok \in BOOLEAN : GetStatus(1, ok)
  \/ req[1] = "gone" /\ RunStep(2)

SpecCrash == Init /\ [][NextCrash]_vars

\* two uploads whose handlers and tasks interleave segment by segment
NextTwo == RunStep(1) \/ RunStep(2)

SpecTwo == Init /\ [][NextTwo]_vars

\* the segments that run when an awaited collaborator call of job j's
\* handler or task settles
Settle(j) ==
  \/ \E ok \in BOOLEAN : CreateConnect(j, ok)
  \/ \E ok \in BOOLEAN : CreateQuery(j, ok)
  \/ Extract(j)
  \/ \E ok \in BOOLEAN : SmConnect(j, ok)
  \/ \E ok \in BOOLEAN : SmBegin(j, ok)
  \/ \E ok \in BOOLEAN : SmInsertManifest(j, ok)
  \/ \E ok \in BOOLEAN : SmInsertDelivery(j, ok)
  \/ \E ok \in BOOLEAN : SmCommit(j, ok)
  \/ \E ok \in BOOLEAN : SmRollback(j, ok)
  \/ \E ok \in BOOLEAN : LinkConnect(j, ok)
  \/ \E ok \in BOOLEAN : LinkQuery(j, ok)
  \/ Unlink(j)
  \/ \E ok \in BOOLEAN : UpdateConnect(j, ok)
  \/ \E ok \in BOOLEAN : UpdateQuery(j, ok)

\* one upload, every awaited call of which eventually resolves or rejects:
\* the event loop then runs the continuation, which nothing can block
SpecLive == Spec /\ \A j \in JobIds : WF_vars(Settle(j))

\* a fresh store that receives one extracted manifest, and the lookups and
\* searches made against it
NextStore ==
  \/ \E manifestData \in ManifestInputs : StoreExtracted(manifestData)
  \/ \E manifestId \in IdentifierInputs : ResolveRequest(manifestId)
  \/ \E postcode \in FilterInputs : SearchRequest(postcode)

SpecStore == Init /\ [][NextStore]_vars

\* ------------------------------------------------------------- claims
ManifestIds == {NewManifestId(j, o) : j \in JobIds, o \in 0..(MaxFiles - 1)}
VisibleDeliveries(m) == {d \in deliveries : d.manifest_id = m}

\* the storeManifest call of the item task j is at has returned an id
StoreReturned(j) == task[j].database_id # Null
\* .. has thrown after it had acquired its client
StoreThrewInTx(j) ==
  /\ task[j].database_id = Null
  /\ task[j].database_error \in {ErrQuery, ErrRollback}

\* C1: storeManifest is atomic.  At every moment, and so after every return
\* or throw of storeManifest whichever of BEGIN, the manifest INSERT, a
\* delivery INSERT or COMMIT failed, each manifest id has either its manifest
\* row and all of its delivery rows committed, or no visible row at all; a
\* call that returned has its rows committed; a call that threw from inside
\* its transaction has none visible and issued ROLLBACK before it threw.
C1_StoreManifestAtomic ==
  /\ \A m \in ManifestIds :
       IF m \in DOMAIN manifests
       THEN {d.delivery_order : d \in VisibleDeliveries(m)}
              = 1..manifests[m].delivery_count
       ELSE VisibleDeliveries(m) = {}
  /\ \A j \in JobIds :
       /\ StoreReturned(j) =>
            /\ task[j].database_id \in DOMAIN manifests
            /\ manifests[task[j].database_id].delivery_count = task[j].nDel
       /\ StoreThrewInTx(j) =>
            /\ NewManifestId(j, task[j].order) \notin DOMAIN manifests
            /\ VisibleDeliveries(NewManifestId(j, task[j].order)) = {}
            /\ task[j].rollbackIssued
            /\ ~tx[j].open

\* a store failed after a delivery row had been inserted in its transaction
C1_Witness ==
  \E j \in JobIds :
    StoreThrewInTx(j) /\ task[j].dorder >= 1 /\ task[j].nDel = MaxDeliveries

\* C2: reading back the id of every successful storeManifest call with
\* getManifestById yields a manifest whose delivery_count is the number of
\* delivery rows returned and whose k-th row has delivery_order k and holds the
\* k-th extracted delivery: the order values are exactly 1..count.
C2_ReadBackDense ==
  /\ \A j \in JobIds : StoreReturned(j) => getManifestById(task[j].database_id).found
  /\ \A m \in DOMAIN manifests :
       LET got == getManifestById(m)
       IN /\ got.delivery_count = Len(got.deliveries)
          /\ \A k \in 1..Len(got.deliveries) :
               /\ got.deliveries[k].delivery_order = k
               /\ got.deliveries[k].item = k - 1

C2_Witness ==
  \E j \in JobIds :
    /\ StoreReturned(j)
    /\ Len(getManifestById(task[j].database_id).deliveries) = MaxDeliveries

Terminal == {"completed", "failed"}
Range(f) == {f[i] : i \in DOMAIN f}
\* the files (0-based) whose extraction raised an Error, in submission order
FailedItems(t) == {i \in 0..(Len(t.extracted) - 1) : t.extracted[i + 1] = "error"}
RECURSIVE Ascending(_)
Ascending(S) ==
  IF S = {} THEN <<>>
  ELSE LET lo == CHOOSE x \in S : \A y \in S : x <= y
       IN <<lo>> \o Ascending(S \ {lo})

C4_TerminalIsFinal ==
  [][\A j \in JobIds :
       /\ heap[j].status \in Terminal => heap'[j].status = heap[j].status
       /\ heap[j].status = "processing" =>
            heap'[j].status \in {"processing"} \cup Terminal
       /\ j \in DOMAIN batch_jobs =>
            /\ j \in DOMAIN batch_jobs'
            /\ batch_jobs[j].status \in Terminal =>
                 batch_jobs'[j].status = batch_jobs[j].status
            /\ batch_jobs[j].status = "processing" =>
                 batch_jobs'[j].status \in {"processing"} \cup Terminal]_vars

\* a job terminal in memory whose task went on to write the durable row
C4_Witness ==
  \E j \in JobIds :
    /\ heap[j].status \in Terminal
    /\ task[j].pc = "done"
    /\ j \in DOMAIN batch_jobs /\ batch_jobs[j].status = heap[j].status

\* C5: a persistence failure of an item is not fatal.  While the task holds
\* its job record, once the store step of its item has thrown (storeManifest
\* or the link), the extraction result has been appended to job.results as
\* the newest entry, carrying the error message as database_error, it has
\* been counted in successfulFiles, the job is still processing and the task
\* is at the file cleanup that precedes the next item; and no job with such
\* an entry becomes failed unless an extraction later rejects without message.
C5_PersistFailureNotFatal ==
  \A j \in JobIds :
    LET t == task[j]
        h == heap[j]
    IN t.job = "ref" =>
         /\ t.database_error # NoError =>
              /\ t.pc = "unlink"
              /\ h.status = "processing"
              /\ Len(h.results) >= 1
              /\ h.results[Len(h.results)] = ResultEntry(t)
              /\ h.results[Len(h.results)].database_error = t.database_error
              /\ t.successfulFiles = Len(h.results)
         /\ (/\ \E i \in 1..Len(h.results) : h.results[i].database_error # NoError
             /\ h.status = "failed") =>
              t.extracted[Len(t.extracted)] = "nonerror"

\* storeManifest threw for the first of two files, the loop went on to the
\* second, and the job completed with both results
C5_Witness ==
  \E j \in JobIds :
    /\ heap[j].status = "completed"
    /\ Len(heap[j].results) = 2
    /\ heap[j].results[1].database_error = ErrQuery
    /\ heap[j].results[1].database_id = Null
    /\ heap[j].results[2].database_error = NoError

\* C6 (as claimed): an error that escapes the per-item handling ends the
\* batch early and leaves the job record the task works on failed, with the
\* escaping error's message attached.
C6_FatalErrorFailsJob ==
  \A j \in JobIds :
    task[j].pc = "crashed" =>
      /\ heap[j].status = "failed"
      /\ heap[j].error # NoError

\* a store call of a durable job write was rejected in this step
CreateRejected(j) ==
  req[j] \in {"create_connect", "create_query"} /\ faults' = faults + 1
FinalUpdateRejected(j) ==
  task[j].pc \in {"update_connect", "update_query"} /\ faults' = faults + 1

\* C7: job creation puts status processing and zero progress in both stores,
\* and a failed durable write is swallowed.  When the 200 response is
\* written the in-memory record is as created and the durable row, if its
\* INSERT succeeded, is processing with zero counts; every submission is
\* answered 200 with its task started, never 500; a step in which the
\* createBatchJob call is rejected leaves the registry and the job record
\* untouched, starts the task and answers 200; a step in which the final
\* updateBatchJob call is rejected leaves the job record, with its terminal
\* status, untouched and ends the task normally; and a task that holds its
\* job record ends with that record in a terminal status.
C7_DurableFailureSwallowed ==
  /\ [](\A j \in JobIds :
          /\ req[j] # "idle" => heap[j].status # "none"
          /\ (res.kind = "batch_started" /\ res.job = j) =>
               /\ heap[j] = JobStatusInit(heap[j].total_files, heap[j].store_in_db)
               /\ heap[j].status = "processing" /\ heap[j].processed_files = 0
               /\ j \in DOMAIN batch_jobs =>
                    /\ batch_jobs[j].status = "processing"
                    /\ batch_jobs[j].total_files = heap[j].total_files
                    /\ batch_jobs[j].processed_files = 0
                    /\ batch_jobs[j].successful_files = 0
                    /\ batch_jobs[j].failed_files = 0
          /\ req[j] = "responded" => task[j].pc # "none"
          /\ res.kind # "error_500"
          /\ (task[j].pc = "done" /\ task[j].job = "ref") =>
               /\ heap[j].status \in Terminal
               /\ heap[j].status = task[j].final
               /\ heap[j].status = "completed" =>
                    heap[j].processed_files = heap[j].total_files)
  /\ [][\A j \in JobIds :
          /\ CreateRejected(j) =>
               /\ heap' = heap /\ batchJobs' = batchJobs
               /\ batch_jobs' = batch_jobs
               /\ res' = BatchStarted(j, heap[j].total_files)
               /\ task'[j].pc = "extract"
          /\ FinalUpdateRejected(j) =>
               /\ heap' = heap /\ batchJobs' = batchJobs
               /\ heap[j].status \in Terminal
               /\ task'[j].pc = "done" /\ task'[j].uncaught = NoError]_vars

\* the job row could not be created and the final update found no row, yet
\* the in-memory job went through both files and completed
C7_Witness ==
  \E j \in JobIds :
    /\ heap[j].store_in_db
    /\ task[j].pc = "done"
    /\ faults = 2
    /\ j \notin DOMAIN batch_jobs
    /\ heap[j].status = "completed"
    /\ heap[j].processed_files = 2

\* C8: the submission is answered before the batch runs.  When the 200
\* response is written it carries the job id, status processing and the
\* file count, whatever happens later; the job record has been created and
\* is processing with no progress, no result and no error; and the task is
\* at its first await, the extraction of the first file, with no outcome
\* recorded in memory or in the durable row.
C8_RespondsBeforeBatch ==
  \A j \in JobIds :
    (res.kind = "batch_started" /\ res.job = j) =>
      /\ res.status = "processing"
      /\ res.total_files = heap[j].total_files
      /\ res.total_files >= 1
      /\ req[j] = "responded"
      /\ heap[j].status = "processing"
      /\ heap[j].processed_files = 0
      /\ heap[j].results = <<>> /\ heap[j].errors = <<>>
      /\ task[j].pc = "extract" /\ task[j].order = 0
      /\ task[j].extracted = <<>>
      /\ j \in batchJobs <=> task[j].job = "ref"
      /\ j \in DOMAIN batch_jobs => batch_jobs[j] = BatchJobRow(heap[j].total_files)
      /\ \A o \in 0..(MaxFiles - 1) : <<j, o>> \notin unlinked

\* the response of a submission whose job is in the registry and has its row
C8_Witness ==
  \E j \in JobIds :
    /\ res.kind = "batch_started" /\ res.job = j
    /\ j \in batchJobs
    /\ j \in DOMAIN batch_jobs
    /\ res.total_files = 2

Finalized(j) ==
  /\ task[j].pc = "done"
  /\ j \in DOMAIN batch_jobs
  /\ batch_jobs[j].status \in Terminal

\* C10 (as claimed): after a finalize whose durable write succeeded, for
\* either terminal status, the durable row holds the terminal status, the
\* serialized results and errors, and the same processed, successful and
\* failed counts as the in-memory record, which carries a terminal timestamp.
C10_FinalizeWritesAll ==
  \A j \in JobIds :
    Finalized(j) =>
      /\ batch_jobs[j].status = heap[j].status
      /\ heap[j].completed_at \/ heap[j].failed_at
      /\ batch_jobs[j].processed_files = heap[j].processed_files
      /\ batch_jobs[j].successful_files = Len(heap[j].results)
      /\ batch_jobs[j].failed_files = Len(heap[j].errors)
      /\ batch_jobs[j].results = JsonStringify(heap[j].results)
      /\ batch_jobs[j].errors = JsonStringify(heap[j].errors)

\* C10 (amended): finalizing as completed sets status completed and
\* completed_at in memory and writes status, completed_at, the processed,
\* successful and failed counts and the serialized results and errors to the
\* durable row, which then agrees with the in-memory record.  Finalizing as
\* failed sets status failed, the error message and failed_at in memory and
\* writes only status failed and error_message to the durable row: no
\* timestamp, its counts stay 0 and its results and errors stay null.
C10_FinalizeByStatus ==
  \A j \in JobIds :
    LET h == heap[j]
    IN /\ h.status = "completed" => h.completed_at /\ ~h.failed_at
       /\ h.status = "failed" => h.failed_at /\ ~h.completed_at /\ h.error # NoError
       /\ h.status = "processing" => ~h.completed_at /\ ~h.failed_at
       /\ Finalized(j) =>
            LET row == batch_jobs[j]
            IN /\ row.status = h.status
               /\ row.status = "completed" =>
                    /\ row.completed_at
                    /\ row.processed_files = h.processed_files
                    /\ row.processed_files = h.total_files
                    /\ row.successful_files = Len(h.results)
                    /\ row.failed_files = Len(h.errors)
                    /\ row.results = JsonStringify(h.results)
                    /\ row.errors = JsonStringify(h.errors)
                    /\ row.error_message = NoError
               /\ row.status = "failed" =>
                    /\ ~row.completed_at
                    /\ row.error_message = h.error
                    /\ row.processed_files = 0
                    /\ row.successful_files = 0
                    /\ row.failed_files = 0
                    /\ row.results = JsonNull
                    /\ row.errors = JsonNull

\* a job finalized as failed after one processed file: the row says failed
\* with 0 processed files, the in-memory record 1
C10_Witness ==
  \E j \in JobIds :
    /\ Finalized(j)
    /\ batch_jobs[j].status = "failed"
    /\ heap[j].processed_files = 1
    /\ Len(heap[j].results) + Len(heap[j].errors) = 1
    /\ batch_jobs[j].processed_files = 0

\* C11: a status read of a job id present in the in-memory registry answers
\* from the in-memory record, whatever the durable row holds; on a miss it
\* answers from the durable row, with the row's status and counts and the
\* source tag 'database'; when the id is in neither store it answers 404
\* not found, and no status read answers with a server error.
C11_GetMemoryFirst ==
  [][\A j \in JobIds, ok \in BOOLEAN :
       GetStatus(j, ok) =>
         /\ j \in batchJobs =>
              /\ res'.kind = "status" /\ res'.job = j /\ res'.source = "memory"
              /\ res'.status = heap[j].status
              /\ res'.total_files = heap[j].total_files
              /\ res'.processed_files = heap[j].processed_files
         /\ (j \notin batchJobs /\ ok /\ j \in DOMAIN batch_jobs) =>
              /\ res'.kind = "status" /\ res'.job = j /\ res'.source = "database"
              /\ res'.status = batch_jobs[j].status
              /\ res'.total_files = batch_jobs[j].total_files
              /\ res'.processed_files = batch_jobs[j].processed_files
         /\ (j \notin batchJobs /\ j \notin DOMAIN batch_jobs) =>
              res'.kind = "error_404"
         /\ res'.kind \in {"status", "error_404"}]_vars

\* a read answered from memory while the durable row of the same job holds
\* other values
C11_Witness ==
  \E j \in JobIds :
    /\ res.kind = "status" /\ res.job = j /\ res.source = "memory"
    /\ j \in batchJobs /\ j \in DOMAIN batch_jobs
    /\ res.processed_files = 1
    /\ batch_jobs[j].processed_files = 0

\* C12: a delete of a registered job id removes the in-memory entry, reports
\* success and leaves the durable tables as they were; right after it a
\* status read finds the durable row if there is one and 404 otherwise; a
\* delete of an id that is not registered (a second delete) answers 404 and
\* changes nothing.
C12_DeleteInMemoryOnly ==
  [][\A j \in JobIds :
       DeleteJob(j) =>
         /\ UNCHANGED <<heap, batch_jobs, manifests, deliveries,
                        batch_job_manifests, task>>
         /\ res'.job = j
         /\ j \in batchJobs =>
              /\ res'.kind = "deleted"
              /\ batchJobs' = batchJobs \ {j}
         /\ j \notin batchJobs =>
              /\ res'.kind = "error_404"
              /\ batchJobs' = batchJobs
         /\ LET after == [kind |-> StatusView(j, TRUE).kind,
                          source |-> StatusView(j, TRUE).source]'
            IN IF j \in DOMAIN batch_jobs
               THEN after = [kind |-> "status", source |-> "database"]
               ELSE after.kind = "error_404"]_vars

\* a second delete has answered 404 for a job whose durable row exists
C12_Witness ==
  \E j \in JobIds :
    /\ res.kind = "error_404" /\ res.job = j
    /\ j \notin batchJobs /\ j \in DOMAIN batch_jobs
    /\ req[j] = "responded"
    /\ task[j].pc = "unlink"

\* the manifests and the link rows job j has committed
ManifestsOf(j) == {m \in DOMAIN manifests : m \in {NewManifestId(j, o) : o \in 0..(MaxFiles - 1)}}
LinksOf(j) == {l \in batch_job_manifests : l.batch_job_id = j}
OkItems(t) == {i \in 1..Len(t.extracted) : t.extracted[i] = "ok"}

\* what the durable copy of a stored job holds when its task has stopped and
\* no store call was rejected: a terminal row, one manifest per extracted
\* item and one link per manifest
DurableRunEnded(j) ==
  /\ j \in DOMAIN batch_jobs
  /\ batch_jobs[j].status \in Terminal
  /\ batch_jobs[j].status = "completed" => Len(task[j].extracted) = task[j].files
  /\ Cardinality(ManifestsOf(j)) = Cardinality(OkItems(task[j]))
  /\ Cardinality(LinksOf(j)) = Cardinality(ManifestsOf(j))

\* C13 (as claimed): a delete of the in-memory entry, at whatever moment it
\* is issued, leaves the durable copy what it is in the run without the
\* delete: when the task has stopped and no store call was rejected, the
\* durable row is terminal and every extracted item has its manifest and its
\* link, whether or not the in-memory entry is still registered.
C13_DeleteLeavesDurableRun ==
  \A j \in JobIds :
    (task[j].pc \in {"done", "crashed"} /\ task[j].storeInDb /\ faults = 0)
      => DurableRunEnded(j)

\* C14: a submission without files answers 400 and changes nothing else: no
\* job record in memory, no row in batch_jobs, no request in progress and no
\* background task.
C14_EmptySubmissionRejected ==
  [][(SubmitEmpty \/ res'.kind = "error_400") =>
       /\ res'.kind = "error_400"
       /\ UNCHANGED <<batchJobs, heap, req, task, manifests, deliveries,
                      batch_jobs, batch_job_manifests, tx, checkedOut,
                      unlinked, faults>>]_vars

\* an empty submission was rejected while no job exists in either store
C14_Witness ==
  /\ res.kind = "error_400"
  /\ batchJobs = {} /\ DOMAIN batch_jobs = {}
  /\ \A j \in JobIds : req[j] = "idle" /\ task[j].pc = "none"

\* the items of job j whose storeManifest call returned an id, as seen in the
\* job's results
Persisted(j) ==
  {heap[j].results[i].database_id : i \in 1..Len(heap[j].results)} \ {Null}

\* C15 (as claimed): every link row of a job points at a manifest the job
\* committed and carries the 1-based position of the manifest's item; every
\* item whose manifest was persisted has its link; and once the job is
\* completed the linked manifests are exactly the committed ones.
C15_LinkPerManifest ==
  \A j \in JobIds :
    /\ \A l \in LinksOf(j) :
         /\ l.manifest_id \in ManifestsOf(j)
         /\ l.processing_order = manifests[l.manifest_id].original_filename + 1
    /\ Persisted(j) \subseteq {l.manifest_id : l \in LinksOf(j)}
    /\ (task[j].pc = "done" /\ heap[j].status = "completed") =>
         {l.manifest_id : l \in LinksOf(j)} = ManifestsOf(j)

\* C20: a step commits at most one manifest, only at the COMMIT of the
\* storeManifest call of the task's current item, and leaves every manifest
\* row committed before, and the delivery rows of each, as they were; an
\* item never has more than one committed manifest.
C20_ManifestImmutable ==
  /\ [](\A j \in JobIds :
          /\ \A o \in 0..(MaxFiles - 1) :
               Cardinality({m \in ManifestsOf(j) :
                              manifests[m].original_filename = o}) <= 1
          /\ \A m \in ManifestsOf(j) : manifests[m].original_filename <= task[j].order
          /\ \A d \in deliveries : d.manifest_id \in DOMAIN manifests)
  /\ [][/\ \A m \in DOMAIN manifests :
            /\ m \in DOMAIN manifests'
            /\ manifests'[m] = manifests[m]
            /\ {d \in deliveries' : d.manifest_id = m}
                 = {d \in deliveries : d.manifest_id = m}
         /\ Cardinality(DOMAIN manifests') <= Cardinality(DOMAIN manifests) + 1
         /\ \A j \in JobIds :
              ManifestsOf(j)' # ManifestsOf(j) =>
                /\ task[j].pc = "sm_commit"
                /\ task'[j].pc = "link_connect"
                /\ task'[j].database_id \in ManifestsOf(j)' \ ManifestsOf(j)]_vars

\* the second item's manifest is committed next to the first item's, each
\* with its own delivery rows
C20_Witness ==
  \E j \in JobIds :
    /\ Cardinality(ManifestsOf(j)) = 2
    /\ \A m \in ManifestsOf(j) :
         /\ manifests[m].delivery_count >= 1
         /\ Cardinality(VisibleDeliveries(m)) = manifests[m].delivery_count
    /\ task[j].pc = "link_connect"

\* ---------------------------------------------- claims about the store
\* a field the claim calls missing, empty or non-numeric: anything but a
\* number or a string of digits with at most one decimal point
WrittenAsNumber(v) ==
  \/ v.type = "number"
  \/ /\ v.type = "string"
     /\ \E i \in 1..Len(v.chars) : IsDigit(v.chars[i])
     /\ \A i \in 1..Len(v.chars) : IsDigit(v.chars[i]) \/ v.chars[i] = "."
     /\ Cardinality({i \in 1..Len(v.chars) : v.chars[i] = "."}) <= 1

\* a string that writes a day of the calendar as DD/MM/YYYY
IsDayMonthYear(v) ==
  /\ v.type = "string"
  /\ Len(v.chars) = 10
  /\ \A i \in 1..10 : IF i \in {3, 6} THEN v.chars[i] = "/" ELSE IsDigit(v.chars[i])
  /\ DigitsValue(SubSeq(v.chars, 4, 5)) \in 1..12
  /\ DigitsValue(SubSeq(v.chars, 1, 2))
       \in 1..DaysIn(DigitsValue(SubSeq(v.chars, 7, 10)),
                    DigitsValue(SubSeq(v.chars, 4, 5)) - 1)

\* the committed delivery row of position i, if any
DeliveryAt(i) == {d \in deliveries : d.delivery_order = i}

\* C16 (as claimed): storeManifest of a manifest without a date commits
\* every delivery, and stores 0 as the estimated weight, and 0 as the case
\* count, of each delivery whose field is missing, empty or non-numeric.
C16_NumericDefaultsToZero ==
  (call.op = "storeManifest" /\ ~Truthy(call.arg.planned_delivery_date)) =>
    /\ ~call.threw
    /\ \A i \in 1..Len(call.arg.deliveries) :
         /\ DeliveryAt(i) # {}
         /\ \A d \in DeliveryAt(i) :
              /\ ~WrittenAsNumber(call.arg.deliveries[i].est_weight_kg)
                   => d.est_weight_kg = JsNumber(0)
              /\ ~WrittenAsNumber(call.arg.deliveries[i].total_cases)
                   => d.total_cases = JsNumber(0)

\* C17 (as claimed): storeManifest of a manifest whose planned delivery date
\* is not a DD/MM/YYYY date, and whose deliveries have numbers in their
\* numeric fields, does not throw: it commits the manifest with a null date
\* and all its deliveries.
C17_UnparsableDateStoredNull ==
  (/\ call.op = "storeManifest"
   /\ Truthy(call.arg.planned_delivery_date)
   /\ ~IsDayMonthYear(call.arg.planned_delivery_date)
   /\ \A i \in 1..Len(call.arg.deliveries) :
        /\ WrittenAsNumber(call.arg.deliveries[i].est_weight_kg)
        /\ WrittenAsNumber(call.arg.deliveries[i].total_cases)) =>
    /\ ~call.threw
    /\ DOMAIN manifests = {GeneratedId}
    /\ manifests[GeneratedId].planned_delivery_date = DateNull
    /\ Cardinality(deliveries) = Len(call.arg.deliveries)

StartsWith(s, prefix) ==
  Len(prefix) <= Len(s) /\ SubSeq(s, 1, Len(prefix)) = prefix

\* C19 (as claimed): a search with a postcode filter of at most 4
\* characters returns exactly the deliveries whose postcode starts with the
\* filter, and with a longer filter exactly those whose postcode equals it.
C19_PostcodeSearchExact ==
  (call.op = "searchDeliveries" /\ Truthy(call.arg)) =>
    {call.rows[i] : i \in 1..Len(call.rows)}
      = {d \in deliveries :
           IF Len(call.arg.chars) <= 4
           THEN StartsWith(d.postcode, call.arg.chars)
           ELSE d.postcode = call.arg.chars}

\* ------------------------------------------- claims about the item loop
\* the entries of a results / errors list name their files in rising order
InSubmissionOrder(list) ==
  \A a, b \in 1..Len(list) : a < b => list[a].filename < list[b].filename

\* C21: the items of a job are processed one at a time in submission order.
\* While the extraction of item i (0-based) is awaited, exactly the items
\* before i have their outcome recorded and counted: processed_files = i =
\* results + errors, all of them items before i; processed_files changes
\* only by +1, in the step that follows the unlink of the item whose index
\* it had, so once per item; and the entries of results and of errors name
\* their files in submission order.
C21_OneItemAtATime ==
  /\ [](\A j \in JobIds :
          /\ (task[j].pc = "extract" /\ task[j].job = "ref") =>
               /\ heap[j].processed_files = task[j].order
               /\ Len(heap[j].results) + Len(heap[j].errors) = task[j].order
               /\ Len(task[j].extracted) = task[j].order
          /\ task[j].pc \notin {"none", "crashed"} =>
               /\ \A i \in 1..Len(heap[j].results) :
                    heap[j].results[i].filename <= task[j].order
               /\ \A i \in 1..Len(heap[j].errors) :
                    heap[j].errors[i].filename <= task[j].order
          /\ InSubmissionOrder(heap[j].results)
          /\ InSubmissionOrder(heap[j].errors))
  /\ [][\A j \in JobIds :
          heap'[j].processed_files # heap[j].processed_files =>
            /\ heap'[j].processed_files = heap[j].processed_files + 1
            /\ task[j].pc = "unlink"
            /\ task[j].order = heap[j].processed_files
            /\ task'[j].order = task[j].order + 1
            /\ Len(heap[j].results) + Len(heap[j].errors) = task[j].order + 1]_vars

\* two files went through the loop, the second after the first
C21_Witness ==
  \E j \in JobIds :
    /\ heap[j].processed_files = 2
    /\ Len(heap[j].results) = 2
    /\ heap[j].results[1].filename = 0
    /\ heap[j].results[2].filename = 1

\* ------------------------------------------ claims about the connections
\* the store operations in flight that have acquired their client
HoldingClient ==
  Cardinality({j \in JobIds :
                 task[j].pc \in {"sm_begin", "sm_insert_manifest", "sm_insert_delivery",
                                 "sm_commit", "sm_rollback", "link_query",
                                 "update_query"}})
  + Cardinality({j \in JobIds : req[j] = "create_query"})
  + (IF call = InitializeCall("query") THEN 1 ELSE 0)

\* C22 (as claimed): every store operation releases the client it acquired
\* exactly once on every exit path: the clients checked out of the pool are
\* exactly those of the operations in flight, and none when no operation is
\* in flight.
C22_ConnectionsReleased == checkedOut = HoldingClient

\* ------------------------------------------ claims about the uploaded file
\* the items (0-based) whose processing was started: processPDF was called
\* for them
StartedItems(t) ==
  IF t.pc = "none" THEN {}
  ELSE {i \in 0..(t.files - 1) : i <= t.order}

\* C23 (as claimed): once a job is in a terminal status, completed or
\* failed, fs.unlink has been called for the file of every item whose
\* processing was started.
C23_FileReleasedOnEveryPath ==
  \A j \in JobIds :
    heap[j].status \in Terminal =>
      \A i \in StartedItems(task[j]) : <<j, i>> \in unlinked

\* ------------------------------------------ claims about a process crash
\* C24: after the process died while a job was in its item loop, the
\* registry has no entry for the job and no task works on it; its durable
\* row, if it was created, is in status processing without a completion
\* time in every later state; a status read of the job is served from the
\* durable copy and says processing, or answers 404 when the row was never
\* created; and no step, of a request about the job or of a later upload,
\* changes the row or creates it.
C24_CrashLeavesProcessing ==
  /\ [](\A j \in JobIds :
          req[j] = "gone" =>
            /\ j \notin batchJobs
            /\ task[j] = NoTask
            /\ j \in DOMAIN batch_jobs =>
                 /\ batch_jobs[j].status = "processing"
                 /\ batch_jobs[j].completed_at = FALSE
            /\ (res.job = j /\ res.kind = "status") =>
                 /\ res.source = "database"
                 /\ res.status = "processing"
                 /\ j \in DOMAIN batch_jobs
            /\ (res.job = j /\ res.kind = "deleted") => FALSE)
  /\ [][\A j \in JobIds :
          req[j] = "gone" =>
            /\ (j \in DOMAIN batch_jobs) <=> (j \in DOMAIN batch_jobs')
            /\ j \in DOMAIN batch_jobs => batch_jobs'[j] = batch_jobs[j]]_vars

\* the first upload's process died mid-batch; the second upload of the new
\* process ran to completion in both copies, and a status read of the first
\* job is then served from its durable row
C24_Witness ==
  /\ req[1] = "gone"
  /\ 1 \in DOMAIN batch_jobs
  /\ task[2].pc = "done"
  /\ heap[2].status = "completed"
  /\ 2 \in DOMAIN batch_jobs /\ batch_jobs[2].status = "completed"
  /\ res.kind = "status" /\ res.job = 1 /\ res.source = "database"

\* ------------------------------------------ claims about concurrent jobs
\* what belongs to job j: its registry entry, record, handler and task, its
\* durable row, its link rows and the manifests its task stored
OwnedBy(j) ==
  <<j \in batchJobs, heap[j], req[j], task[j], tx[j],
    IF j \in DOMAIN batch_jobs THEN <<batch_jobs[j]>> ELSE <<>>,
    LinksOf(j),
    [m \in ManifestsOf(j) |-> manifests[m]],
    {d \in deliveries : d.manifest_id \in ManifestsOf(j)}>>

\* C25: jobs running concurrently are isolated.  Every step is a step of
\* one job: a step that moves the handler or the task of job k changes
\* nothing that belongs to another job j, neither its in-memory record nor
\* its durable row, link rows or manifests, so the record of a job changes
\* only in the steps of its own task.  In every state the link rows of a
\* job point at manifests its own task stored, at the position of their
\* item, the results of a job carry ids of its own manifests only, and a
\* job that completed has one result or error per file of its own.
C25_JobsIsolated ==
  /\ [][\A j, k \in JobIds :
          (j # k /\ (task'[k] # task[k] \/ req'[k] # req[k])) =>
            OwnedBy(j)' = OwnedBy(j)]_vars
  /\ [](\A j \in JobIds :
          /\ \A l \in LinksOf(j) :
               /\ l.manifest_id \in ManifestsOf(j)
               /\ l.manifest_id = NewManifestId(j, l.processing_order - 1)
          /\ \A i \in 1..Len(heap[j].results) :
               heap[j].results[i].database_id # Null =>
                 heap[j].results[i].database_id
                   = NewManifestId(j, heap[j].results[i].filename)
          /\ heap[j].status = "completed" =>
               /\ Len(heap[j].results) + Len(heap[j].errors) = heap[j].total_files
               /\ Len(heap[j].errors) = Cardinality(FailedItems(task[j])))

\* both jobs were in their item loops at once, each stored and linked a
\* manifest, and both completed
C25_Witness ==
  /\ heap[1].status = "completed" /\ heap[2].status = "completed"
  /\ LinksOf(1) # {} /\ LinksOf(2) # {}
  /\ task[1].pc = "done" /\ task[2].pc = "done"
  /\ 1 \in DOMAIN batch_jobs /\ batch_jobs[1].status = "completed"
  /\ 2 \in DOMAIN batch_jobs /\ batch_jobs[2].status = "completed"

\* ------------------------------------------------ claims about termination
\* C26 (as claimed): when every awaited call eventually resolves or
\* rejects, the background task of a submitted job never ends with an
\* uncaught error and eventually ends with the job record in a terminal
\* status, whatever status reads and deletes of the job id come in between.
C26_TaskTerminates ==
  \A j \in JobIds :
    /\ [](task[j].pc # "crashed")
    /\ (req[j] # "idle") ~> (task[j].pc = "done" /\ heap[j].status \in Terminal)

\* ------------------------------------------ claims about the job record
Recorded(h) == Len(h.results) + Len(h.errors)

\* C27: in every reachable state of a created in-memory job record,
\* processed_files <= results + errors <= processed_files + 1 and
\* results + errors <= total_files; whenever its status is completed,
\* processed_files = total_files = results + errors; and no step changes
\* the total_files of a created record.
C27_JobRecordCounts ==
  /\ [](\A j \in JobIds :
          heap[j].status # "none" =>
            /\ heap[j].processed_files <= Recorded(heap[j])
            /\ Recorded(heap[j]) <= heap[j].processed_files + 1
            /\ Recorded(heap[j]) <= heap[j].total_files
            /\ heap[j].total_files \in 1..MaxFiles
            /\ heap[j].status = "completed" =>
                 /\ heap[j].processed_files = heap[j].total_files
                 /\ Recorded(heap[j]) = heap[j].total_files)
  /\ [][\A j \in JobIds :
          heap[j].status # "none" => heap'[j].total_files = heap[j].total_files]_vars

\* the second of two files is recorded and not yet counted: one result, one
\* error, processed_files 1
C27_Witness ==
  \E j \in JobIds :
    /\ heap[j].total_files = 2
    /\ heap[j].processed_files = 1
    /\ Len(heap[j].results) = 1 /\ Len(heap[j].errors) = 1
    /\ task[j].pc = "unlink"

\* C28 (as claimed): every entry of the results of a job that stores to the
\* database carries exactly one of a database id and a database error; no
\* committed manifest row corresponds to an entry with a database error,
\* and the manifest row of an entry with a database id is committed.
C28_IdOrErrorExclusive ==
  \A j \in JobIds :
    heap[j].store_in_db =>
      \A i \in 1..Len(heap[j].results) :
        LET e == heap[j].results[i]
        IN /\ (e.database_id # Null) # (e.database_error # NoError)
           /\ e.database_error # NoError =>
                NewManifestId(j, e.filename) \notin DOMAIN manifests
           /\ e.database_id # Null => e.database_id \in DOMAIN manifests

====
